---- MODULE Spec2Model ----
(***************************************************************************)
(* xc: cut characters out of a text buffer.                                *)
(*                                                                         *)
(* A model of src/src/xc.cc (main, match_args, ignore_if,                  *)
(* ignore_and_append, look_for) and of the classifier library              *)
(* src/src/char_type.h.  Strings are sequences of character codes, with    *)
(* 1-based TLA+ indices; the 0-based positions of std::string are          *)
(* converted where the code computes with them.                            *)
(***************************************************************************)
EXTENDS Integers, Sequences, FiniteSets, TLC

(***************************************************************************)
(* Bounds of the model.                                                    *)
(***************************************************************************)
MaxBufLen == 3
MaxPieces == 2
MaxLimit == 2

(***************************************************************************)
(* char_type.h: the classifier predicates.  The C++ functions return the   *)
(* int value of a boolean expression; the model keeps the boolean.         *)
(***************************************************************************)
isalpha(c) == (c >= 97 /\ c <= 122) \/ (c >= 65 /\ c <= 90)

isdigit(c) == c >= 48 /\ c <= 57

isalnum(c) == ((c >= 97 /\ c <= 122) \/ (c >= 65 /\ c <= 90)) \/ (c >= 48 /\ c <= 57)

iscntrl(c) == (c >= 0 /\ c < 32) \/ c = 127

isgraph(c) == c >= 33 /\ c <= 126

islower(c) == c >= 97 /\ c <= 122

isprint(c) == c >= 32 /\ c <= 95

ispunct(c) == isgraph(c) /\ ~isalnum(c)

isspace(c) == (c >= 9 /\ c <= 13) \/ c = 32

isupper(c) == c >= 65 /\ c <= 90

isxdigit(c) == isdigit(c) \/ ((c >= 97 /\ c <= 102) \/ (c >= 65 /\ c <= 70))

isblank(c) == c = 32 \/ c = 9

isvtab(c) == c = 11

ishtab(c) == c = 9

isaspace(c) == c = 32

isnewline(c) == c = 10

\* A tolower whose offset has the sign of the 16 flipped: c + '0' + 16.
tolower_plus16(c) == IF isupper(c) THEN (c + 48) + 16 ELSE c

\* tolower: isupper(c) ? (c + '0' - 16) : c, with '0' = 48.
tolower(c) == IF isupper(c) THEN (c + 48) - 16 ELSE c

\* toupper: islower(c) ? (c - '0' + 16) : c.
toupper(c) == IF islower(c) THEN (c - 48) + 16 ELSE c

(***************************************************************************)
(* std::int64_t values.  The model checker's integers are narrower than    *)
(* 64 bits, so a value is a sign and a magnitude of three 21-bit limbs,    *)
(* least significant first.                                                *)
(***************************************************************************)
LimbBase == 2097152

I64(n) == [neg |-> n < 0, mag |-> <<IF n < 0 THEN -n ELSE n, 0, 0>>]

\* std::numeric_limits<std::int64_t>::max() = 2^63 - 1.
INT64_MAX == [neg |-> FALSE, mag |-> <<LimbBase - 1, LimbBase - 1, LimbBase - 1>>]

IsNeg(t) == t.neg

IsZero(t) == t.mag = <<0, 0, 0>>

MagDec(m) ==
    IF m[1] > 0 THEN <<m[1] - 1, m[2], m[3]>>
    ELSE IF m[2] > 0 THEN <<LimbBase - 1, m[2] - 1, m[3]>>
    ELSE <<LimbBase - 1, LimbBase - 1, m[3] - 1>>

MagInc(m) ==
    IF m[1] < LimbBase - 1 THEN <<m[1] + 1, m[2], m[3]>>
    ELSE IF m[2] < LimbBase - 1 THEN <<0, m[2] + 1, m[3]>>
    ELSE <<0, 0, m[3] + 1>>

\* A decrement that was forgotten: times is left as it was.
DecStuck(t) == t

\* times--
Dec(t) ==
    IF IsZero(t) THEN [neg |-> TRUE, mag |-> <<1, 0, 0>>]
    ELSE IF t.neg THEN [neg |-> TRUE, mag |-> MagInc(t.mag)]
    ELSE [neg |-> FALSE, mag |-> MagDec(t.mag)]

(***************************************************************************)
(* std::string operations used by xc.cc.                                   *)
(***************************************************************************)
\* std::string::npos, kept as -1 so that npos + 2 wraps to 1 as it does
\* in size_t arithmetic.
npos == -1

RECURSIVE FindFrom(_, _, _)
\* First 0-based position p >= from at which key occurs in s, or npos.
FindFrom(s, key, from) ==
    IF from + Len(key) > Len(s) THEN npos
    ELSE IF SubSeq(s, from + 1, from + Len(key)) = key THEN from
    ELSE FindFrom(s, key, from + 1)

\* std::string::find(key)
Find(s, key) == FindFrom(s, key, 0)

RECURSIVE RfindFrom(_, _, _)
\* Last 0-based position p <= from at which key occurs in s, or npos.
RfindFrom(s, key, from) ==
    IF from < 0 THEN npos
    ELSE IF SubSeq(s, from + 1, from + Len(key)) = key THEN from
    ELSE RfindFrom(s, key, from - 1)

\* std::string::rfind(key)
Rfind(s, key) == RfindFrom(s, key, Len(s) - Len(key))

\* contains_this(source, key)
contains_this(source, key) == Find(source, key) # npos

\* std::string::replace(pos, len, ""): removes min(len, size - pos)
\* characters starting at the 0-based position pos.
Replace(s, pos, len) ==
    LET n == IF len > Len(s) - pos THEN Len(s) - pos ELSE len
    IN  SubSeq(s, 1, pos) \o SubSeq(s, pos + n + 1, Len(s))

RECURSIVE FindCharFrom(_, _, _)
\* std::find(source.begin(), source.end(), e): 1-based index of the first
\* element equal to e, or Len(source) + 1 for source.end().
FindCharFrom(source, e, i) ==
    IF i > Len(source) THEN Len(source) + 1
    ELSE IF source[i] = e THEN i
    ELSE FindCharFrom(source, e, i + 1)

RECURSIVE FindCharLast(_, _, _)
\* A search that walks from the back: 1-based index of the last element
\* equal to e, or Len(source) + 1.
FindCharLast(source, e, i) ==
    IF i < 1 THEN Len(source) + 1
    ELSE IF source[i] = e THEN i
    ELSE FindCharLast(source, e, i - 1)

StdFindLast(source, e) == FindCharLast(source, e, Len(source))

StdFind(source, e) == FindCharFrom(source, e, 1)

\* source.erase(iterator): removes the element at 1-based index i.
EraseAt(source, i) == SubSeq(source, 1, i - 1) \o SubSeq(source, i + 1, Len(source))

\* An erase that removes the first character of the range even when the
\* range is empty.
EraseRangeOne(s, first, last) == SubSeq(s, 1, first - 1) \o SubSeq(s, first + 1, Len(s))

\* s.erase(first, last): removes the 1-based range [first, last).
EraseRange(s, first, last) == SubSeq(s, 1, first - 1) \o SubSeq(s, last, Len(s))

(***************************************************************************)
(* xc.cc: class removal.                                                   *)
(***************************************************************************)
\* The lambdas that match_args hands to ignore_and_append, by the name of
\* the char_type function each one calls.
Holds(pred, c) ==
    CASE pred = "isalnum" -> isalnum(c)
      [] pred = "isalpha" -> isalpha(c)
      [] pred = "isblank" -> isblank(c)
      [] pred = "iscntrl" -> iscntrl(c)
      [] pred = "isdigit" -> isdigit(c)
      [] pred = "isgraph" -> isgraph(c)
      [] pred = "islower" -> islower(c)
      [] pred = "isprint" -> isprint(c)
      [] pred = "ispunct" -> ispunct(c)
      [] pred = "isspace" -> isspace(c)
      [] pred = "isaspace" -> isaspace(c)
      [] pred = "ishtab" -> ishtab(c)
      [] pred = "isvtab" -> isvtab(c)
      [] pred = "isnewline" -> isnewline(c)
      [] pred = "isupper" -> isupper(c)
      [] pred = "isxdigit" -> isxdigit(c)

RECURSIVE IgnoreFirstFrom(_, _, _)
IgnoreFirstFrom(source, pred, i) ==
    IF i > Len(source) THEN source
    ELSE IF Holds(pred, source[i]) THEN EraseAt(source, i)
    ELSE IgnoreFirstFrom(source, pred, i + 1)

\* An ignore_if that stops after the first byte it drops.
ignore_if_first(source, pred) == IgnoreFirstFrom(source, pred, 1)

RECURSIVE IgnoreFrontFrom(_, _, _, _)
IgnoreFrontFrom(source, pred, i, buf) ==
    IF i > Len(source) THEN buf
    ELSE IF ~Holds(pred, source[i])
         THEN IgnoreFrontFrom(source, pred, i + 1, <<source[i]>> \o buf)
         ELSE IgnoreFrontFrom(source, pred, i + 1, buf)

\* An ignore_if that inserts each kept byte at the front of buf.
ignore_if_front(source, pred) == IgnoreFrontFrom(source, pred, 1, <<>>)

RECURSIVE IgnoreFrom(_, _, _, _)
\* The loop of ignore_if: buf.push_back(item) for every item of source
\* that pred rejects.
IgnoreFrom(source, pred, i, buf) ==
    IF i > Len(source) THEN buf
    ELSE IF ~Holds(pred, source[i])
         THEN IgnoreFrom(source, pred, i + 1, Append(buf, source[i]))
         ELSE IgnoreFrom(source, pred, i + 1, buf)

ignore_if(source, pred) == IgnoreFrom(source, pred, 1, <<>>)

\* An ignore_and_append that appends without clearing buf first.
ignore_and_append_noclear(buf, pred) == buf \o ignore_if(buf, pred)

\* ignore_and_append(buf, pred): buf.clear(); buf.append(ignore_if(buf, pred)).
ignore_and_append(buf, pred) == <<>> \o ignore_if(buf, pred)

\* The tokens match_args looks for, in the order of its if statements,
\* each with the predicate its lambda calls.
ClassTokens ==
    << [name |-> "alnum",   token |-> <<91, 58, 97, 108, 110, 117, 109, 58, 93>>,  pred |-> "isalnum"],
       [name |-> "alpha",   token |-> <<91, 58, 97, 108, 112, 104, 97, 58, 93>>,   pred |-> "isalpha"],
       [name |-> "blank",   token |-> <<91, 58, 98, 108, 97, 110, 107, 58, 93>>,   pred |-> "isblank"],
       [name |-> "cntrl",   token |-> <<91, 58, 99, 110, 116, 114, 108, 58, 93>>,  pred |-> "iscntrl"],
       [name |-> "digit",   token |-> <<91, 58, 100, 105, 103, 105, 116, 58, 93>>, pred |-> "isdigit"],
       [name |-> "graph",   token |-> <<91, 58, 103, 114, 97, 112, 104, 58, 93>>,  pred |-> "isgraph"],
       [name |-> "lower",   token |-> <<91, 58, 108, 111, 119, 101, 114, 58, 93>>, pred |-> "islower"],
       [name |-> "print",   token |-> <<91, 58, 112, 114, 105, 110, 116, 58, 93>>, pred |-> "isprint"],
       [name |-> "punct",   token |-> <<91, 58, 112, 117, 110, 99, 116, 58, 93>>,  pred |-> "ispunct"],
       [name |-> "space",   token |-> <<91, 58, 115, 112, 97, 99, 101, 58, 93>>,   pred |-> "isaspace"],
       [name |-> "htab",    token |-> <<91, 58, 104, 116, 97, 98, 58, 93>>,        pred |-> "ishtab"],
       [name |-> "vtab",    token |-> <<91, 58, 118, 116, 97, 98, 58, 93>>,        pred |-> "ishtab"],
       [name |-> "newline", token |-> <<91, 58, 110, 101, 119, 108, 105, 110, 101, 58, 93>>, pred |-> "isnewline"],
       [name |-> "upper",   token |-> <<91, 58, 117, 112, 112, 101, 114, 58, 93>>, pred |-> "isupper"],
       [name |-> "xdigit",  token |-> <<91, 58, 120, 100, 105, 103, 105, 116, 58, 93>>, pred |-> "isxdigit"] >>

RECURSIVE MatchFrom(_, _, _, _)
\* The chain of if statements of match_args taken over the token table
\* order, starting at its i-th entry.
MatchFrom(order, args, buf, i) ==
    IF i > Len(order) THEN buf
    ELSE IF contains_this(args, order[i].token)
         THEN MatchFrom(order, args, ignore_and_append(buf, order[i].pred), i + 1)
         ELSE MatchFrom(order, args, buf, i + 1)

\* match_args(args, buf): the value of buf on return.
match_args(args, buf) == MatchFrom(ClassTokens, args, buf, 1)

(***************************************************************************)
(* The inputs of a run: the file contents, the pattern argument and the    *)
(* value of the -l option.                                                 *)
(***************************************************************************)
\* Tab, '1' and 'a'.
BufBytes == {9, 49, 97}

Hello123World == <<72, 101, 108, 108, 111, 49, 50, 51, 32, 87, 111, 114, 108, 100, 33>>

Aabbbcc == <<97, 97, 98, 98, 98, 99, 99>>

A1B2C3 == <<65, 49, 32, 66, 50, 32, 67, 51>>

Mississippi == <<109, 105, 115, 115, 105, 115, 115, 105, 112, 112, 105>>

Buffers ==
    UNION {[1..n -> BufBytes] : n \in 0..MaxBufLen}
        \cup {Hello123World, Aabbbcc, A1B2C3, Mississippi}

TokenOf(name) == (CHOOSE r \in {ClassTokens[i] : i \in 1..Len(ClassTokens)} : r.name = name).token

\* Literal 'a', literal '1' and two class tokens.
Pieces == {<<97>>, <<49>>, TokenOf("digit"), TokenOf("htab")}

RECURSIVE PatternsOf(_)
PatternsOf(n) ==
    IF n = 0 THEN {<<>>}
    ELSE PatternsOf(n - 1) \cup {p \o q : p \in PatternsOf(n - 1), q \in Pieces}

\* "b", "si", "[:space:]", "[:vtab:]", "[:space:]1", "l[:upper:][:blank:]",
\* "x[:digit:]abc", "a[:digit:]1a"
ExtraPatterns ==
    { <<98>>, <<115, 105>>,
      TokenOf("space"), TokenOf("vtab"), TokenOf("space") \o <<49>>,
      <<108>> \o TokenOf("upper") \o TokenOf("blank"),
      <<120>> \o TokenOf("digit") \o <<97, 98, 99>>,
      <<97>> \o TokenOf("digit") \o <<49, 97>> }

Patterns == PatternsOf(MaxPieces) \cup ExtraPatterns

\* look_lim: the default, or atol of the -l argument.
Limits == {INT64_MAX} \cup {I64(n) : n \in -1..MaxLimit}

(***************************************************************************)
(* State.                                                                  *)
(***************************************************************************)
VARIABLES
    pc,         \* position in main / look_for
    file_buf,   \* main: file_buf, look_for: source
    arg_v1,     \* main: arg_v1, look_for: matches
    look_lim,   \* main: look_lim
    times,      \* look_for: times
    times_old,  \* look_for: times_old
    e_pos,      \* look_for: 1-based position of the range-for iterator
    out,        \* what was written to std::cout
    err,        \* TRUE once fatal_errorx has reported
    err_buf,    \* history: file_buf at the moment fatal_errorx reported
    buf0,       \* history: file_buf as read from the file
    pattern0,   \* history: the pattern argument
    look_src,   \* history: source on entry to look_for
    pass_src,   \* history: source when the current residue character began
    iters,      \* history: inner-loop iterations for the current character
    ch,         \* char_type: argument of the last conversion call
    conv,       \* char_type: which conversion was called
    res         \* char_type: its result

vars == <<pc, file_buf, arg_v1, look_lim, times, times_old, e_pos, out, err,
          err_buf, buf0, pattern0, look_src, pass_src, iters, ch, conv, res>>

Init ==
    /\ pc = "match_args"
    /\ file_buf \in Buffers
    /\ arg_v1 \in Patterns
    /\ look_lim \in Limits
    /\ times = I64(0)
    /\ times_old = I64(0)
    /\ e_pos = 0
    /\ out = <<>>
    /\ err = FALSE
    /\ err_buf = <<>>
    /\ buf0 = file_buf
    /\ pattern0 = arg_v1
    /\ look_src = <<>>
    /\ pass_src = <<>>
    /\ iters = 0
    /\ ch = 0
    /\ conv = "none"
    /\ res = 0

(***************************************************************************)
(* main and look_for, one action per step.                                 *)
(***************************************************************************)
\* main: match_args(arg_v1, file_buf)
MatchArgs ==
    /\ pc = "match_args"
    /\ file_buf' = match_args(arg_v1, file_buf)
    /\ pc' = "strip"
    /\ UNCHANGED <<arg_v1, look_lim, times, times_old, e_pos, out, err, err_buf,
                   buf0, pattern0, look_src, pass_src, iters, ch, conv, res>>

\* The residue main computes from a pattern.
Residue(p) ==
    IF Find(p, <<91, 58>>) # npos
    THEN Replace(p, Find(p, <<91, 58>>), Rfind(p, <<58, 93>>) + 2)
    ELSE p

\* main: if (arg_v1.find("[:") != npos) arg_v1 = arg_v1.replace(...)
StripClassSyntax ==
    /\ pc = "strip"
    /\ arg_v1' = Residue(arg_v1)
    /\ pc' = "look_for"
    /\ UNCHANGED <<file_buf, look_lim, times, times_old, e_pos, out, err, err_buf,
                   buf0, pattern0, look_src, pass_src, iters, ch, conv, res>>

\* look_for entry with times < 0: fatal_errorx, the process exits.
LookForReject ==
    /\ pc = "look_for"
    /\ IsNeg(look_lim)
    /\ times' = look_lim
    /\ times_old' = look_lim
    /\ err' = TRUE
    /\ err_buf' = file_buf
    /\ pc' = "exit"
    /\ UNCHANGED <<file_buf, arg_v1, look_lim, e_pos, out,
                   buf0, pattern0, look_src, pass_src, iters, ch, conv, res>>

\* look_for entry with times >= 0: the range-for starts at matches.begin().
LookForEnter ==
    /\ pc = "look_for"
    /\ ~IsNeg(look_lim)
    /\ times' = look_lim
    /\ times_old' = look_lim
    /\ e_pos' = 1
    /\ look_src' = file_buf
    /\ pass_src' = file_buf
    /\ iters' = 0
    /\ pc' = "for"
    /\ UNCHANGED <<file_buf, arg_v1, look_lim, out, err, err_buf,
                   buf0, pattern0, ch, conv, res>>

\* The condition of the while loop for the residue character at e_pos.
WhileCond == ~IsZero(times) /\ StdFind(file_buf, arg_v1[e_pos]) # Len(file_buf) + 1

\* One iteration of the while loop: source.erase(std::find(...)); times--.
LookForErase ==
    /\ pc = "for"
    /\ e_pos <= Len(arg_v1)
    /\ WhileCond
    /\ file_buf' = EraseAt(file_buf, StdFind(file_buf, arg_v1[e_pos]))
    /\ times' = Dec(times)
    /\ iters' = iters + 1
    /\ UNCHANGED <<pc, arg_v1, look_lim, times_old, e_pos, out, err, err_buf,
                   buf0, pattern0, look_src, pass_src, ch, conv, res>>

\* The while loop has ended: matches.erase(begin, begin); times = times_old;
\* the range-for advances.
LookForNextChar ==
    /\ pc = "for"
    /\ e_pos <= Len(arg_v1)
    /\ ~WhileCond
    /\ arg_v1' = EraseRange(arg_v1, 1, 1)
    /\ times' = times_old
    /\ e_pos' = e_pos + 1
    /\ pass_src' = file_buf
    /\ iters' = 0
    /\ UNCHANGED <<pc, file_buf, look_lim, times_old, out, err, err_buf,
                   buf0, pattern0, look_src, ch, conv, res>>

\* The range-for has reached matches.end(): return source.
LookForReturn ==
    /\ pc = "for"
    /\ e_pos > Len(arg_v1)
    /\ pc' = "print"
    /\ UNCHANGED <<file_buf, arg_v1, look_lim, times, times_old, e_pos, out, err,
                   err_buf, buf0, pattern0, look_src, pass_src, iters, ch, conv, res>>

\* main: std::cout << file_buf
Output ==
    /\ pc = "print"
    /\ out' = file_buf
    /\ pc' = "done"
    /\ UNCHANGED <<file_buf, arg_v1, look_lim, times, times_old, e_pos, err,
                   err_buf, buf0, pattern0, look_src, pass_src, iters, ch, conv, res>>

Next ==
    \/ MatchArgs
    \/ StripClassSyntax
    \/ LookForReject
    \/ LookForEnter
    \/ LookForErase
    \/ LookForNextChar
    \/ LookForReturn
    \/ Output

Spec == Init /\ [][Next]_vars

\* The program runs without interruption: whatever step is enabled is taken.
FairSpec == Spec /\ WF_vars(Next)

(***************************************************************************)
(* char_type::tolower and char_type::toupper are not called by xc.cc; they *)
(* are exercised on their own, one call per step.                          *)
(***************************************************************************)
\* The values a char or int argument is drawn from.
Chars == -128..255

InitCT ==
    /\ pc = "char_type"
    /\ file_buf = <<>>
    /\ arg_v1 = <<>>
    /\ look_lim = INT64_MAX
    /\ times = I64(0)
    /\ times_old = I64(0)
    /\ e_pos = 0
    /\ out = <<>>
    /\ err = FALSE
    /\ err_buf = <<>>
    /\ buf0 = <<>>
    /\ pattern0 = <<>>
    /\ look_src = <<>>
    /\ pass_src = <<>>
    /\ iters = 0
    /\ ch = 0
    /\ conv = "none"
    /\ res = 0

CallTolower ==
    /\ pc = "char_type"
    /\ \E c \in Chars :
         /\ ch' = c
         /\ res' = tolower(c)
    /\ conv' = "tolower"
    /\ UNCHANGED <<pc, file_buf, arg_v1, look_lim, times, times_old, e_pos, out, err,
                   err_buf, buf0, pattern0, look_src, pass_src, iters>>

CallToupper ==
    /\ pc = "char_type"
    /\ \E c \in Chars :
         /\ ch' = c
         /\ res' = toupper(c)
    /\ conv' = "toupper"
    /\ UNCHANGED <<pc, file_buf, arg_v1, look_lim, times, times_old, e_pos, out, err,
                   err_buf, buf0, pattern0, look_src, pass_src, iters>>

NextCT == CallTolower \/ CallToupper

SpecCT == InitCT /\ [][NextCT]_vars

(***************************************************************************)
(* Vocabulary of the properties.                                           *)
(***************************************************************************)
\* Number of occurrences of c in s.
Count(c, s) == Cardinality({i \in 1..Len(s) : s[i] = c})

\* The characters that occur in s.
CharsOf(s) == {s[i] : i \in 1..Len(s)}

\* min(k, t) for a count k and a non-negative 64-bit t.
MinCount(k, t) == IF t.mag[2] = 0 /\ t.mag[3] = 0 /\ t.mag[1] < k THEN t.mag[1] ELSE k

RECURSIVE IsSubseqFrom(_, _, _, _)
\* a[i..] can be obtained from b[j..] by deleting elements.
IsSubseqFrom(a, b, i, j) ==
    IF i > Len(a) THEN TRUE
    ELSE IF j > Len(b) THEN FALSE
    ELSE IF a[i] = b[j] THEN IsSubseqFrom(a, b, i + 1, j + 1)
    ELSE IsSubseqFrom(a, b, i, j + 1)

IsSubseq(a, b) == IsSubseqFrom(a, b, 1, 1)

\* The entries of the token table whose token occurs in the pattern p.
Present(p) == {ClassTokens[i] : i \in {k \in 1..Len(ClassTokens) : contains_this(p, ClassTokens[k].token)}}

\* The same entries, as a sequence in table order.
PresentSeq(p) == SelectSeq(ClassTokens, LAMBDA r : contains_this(p, r.token))

\* The pipeline has completed and written its output.
Completed == pc = "done"

(***************************************************************************)
(* C1.  Once the pipeline match_args -> residue stripping -> look_for has  *)
(* completed with a limit N >= 0 (N = 0 and the unlimited default          *)
(* included), the buffer holds no byte accepted by a predicate that        *)
(* match_args selected for a class token of the pattern: class removal is  *)
(* exhaustive and not limited by N.                                        *)
(***************************************************************************)
C1_ClassRemovalExhaustive ==
    pc \in {"print", "done"} =>
        \A r \in Present(pattern0) :
            /\ \A j \in 1..Len(file_buf) : ~Holds(r.pred, file_buf[j])
            /\ Completed => \A j \in 1..Len(out) : ~Holds(r.pred, out[j])

\* A completed run with N = 0 whose pattern names [:digit:] and whose file
\* held at least two digits.
C1_Witness ==
    /\ Completed
    /\ look_lim = I64(0)
    /\ contains_this(pattern0, TokenOf("digit"))
    /\ Cardinality({j \in 1..Len(buf0) : isdigit(buf0[j])}) >= 2
    /\ \A j \in 1..Len(out) : ~isdigit(out[j])

\* The classifier predicate that carries the name of a class token.
SameNamePred(name) ==
    CASE name = "alnum" -> "isalnum"
      [] name = "alpha" -> "isalpha"
      [] name = "blank" -> "isblank"
      [] name = "cntrl" -> "iscntrl"
      [] name = "digit" -> "isdigit"
      [] name = "graph" -> "isgraph"
      [] name = "lower" -> "islower"
      [] name = "print" -> "isprint"
      [] name = "punct" -> "ispunct"
      [] name = "space" -> "isspace"
      [] name = "htab" -> "ishtab"
      [] name = "vtab" -> "isvtab"
      [] name = "newline" -> "isnewline"
      [] name = "upper" -> "isupper"
      [] name = "xdigit" -> "isxdigit"

(***************************************************************************)
(* C2.  Every class token of the pattern selects the classifier predicate  *)
(* of its own name: after a completed run the output holds no byte of      *)
(* isspace for [:space:], no vertical tab for [:vtab:], no horizontal tab  *)
(* for [:htab:], and a pattern that is exactly [:htab:] removes the        *)
(* horizontal tabs and nothing else.                                       *)
(***************************************************************************)
C2_TokenSelectsSameNamePredicate ==
    Completed =>
        /\ \A r \in Present(pattern0) :
               \A j \in 1..Len(out) : ~Holds(SameNamePred(r.name), out[j])
        /\ pattern0 = TokenOf("htab") =>
               out = SelectSeq(buf0, LAMBDA c : c # 9)

(***************************************************************************)
(* C3.  As claimed: for each distinct character c of the residue with k    *)
(* occurrences in the buffer when look_for starts, look_for removes        *)
(* exactly min(k, N) occurrences of c.                                     *)
(***************************************************************************)
C3_Original ==
    pc = "print" =>
        \A c \in CharsOf(arg_v1) :
            Count(c, look_src) - Count(c, file_buf) = MinCount(Count(c, look_src), look_lim)

RECURSIVE RemovedIn(_, _, _)
\* Occurrences removed from k by m successive passes of at most t each.
RemovedIn(k, t, m) ==
    IF m = 0 THEN 0
    ELSE LET before == RemovedIn(k, t, m - 1)
         IN  before + MinCount(k - before, t)

(***************************************************************************)
(* C3, amended.  For each distinct character c of the residue that occurs  *)
(* m times in the residue and k times in the buffer when look_for starts,  *)
(* look_for removes exactly min(k, m * N) occurrences of c: min(rest, N)   *)
(* for each occurrence of c in the residue in turn.  The count of one      *)
(* character is not shared with any other character, and bytes that are    *)
(* not in the residue are not removed.                                     *)
(***************************************************************************)
C3_PerOccurrenceBound ==
    pc = "print" =>
        /\ \A c \in CharsOf(arg_v1) :
               Count(c, look_src) - Count(c, file_buf)
                   = RemovedIn(Count(c, look_src), look_lim, Count(c, arg_v1))
        /\ \A c \in CharsOf(look_src) \ CharsOf(arg_v1) :
               Count(c, file_buf) = Count(c, look_src)

\* look_for has returned with N = 1 and a residue that names 'a' twice and
\* '1' once, on a buffer with three 'a': two of them are gone, one is left.
C3_Witness ==
    /\ pc = "print"
    /\ look_lim = I64(1)
    /\ Count(97, arg_v1) = 2
    /\ Count(97, look_src) = 3
    /\ Count(97, file_buf) = 1

(***************************************************************************)
(* C4.  With a negative limit the usage error is reported while the buffer *)
(* is still what was read from the file, whatever the pattern.             *)
(***************************************************************************)
C4_RejectBeforeMutation == err => err_buf = buf0

ClaimedResidue(p) ==
    LET i == Find(p, <<91, 58>>)
        j == Rfind(p, <<58, 93>>)
    IN  IF i = npos THEN p
        ELSE SubSeq(p, 1, i) \o SubSeq(p, j + 3, Len(p))

(***************************************************************************)
(* C5.  The residue is the pattern when it has no "[:"; otherwise it is    *)
(* the pattern without the characters at positions i .. j + 1, i the       *)
(* index of the first "[:" and j the index of the last ":]".               *)
(***************************************************************************)
C5_ResidueIsPatternWithoutSpan ==
    (pc \notin {"match_args", "strip"} /\ Rfind(pattern0, <<58, 93>>) # npos)
        => arg_v1 = ClaimedResidue(pattern0)

(***************************************************************************)
(* C6.  At every point of a run the buffer is a subsequence of the file    *)
(* contents, and so is the output: surviving bytes keep their order and    *)
(* no byte is added or changed.                                            *)
(***************************************************************************)
C6_BufferIsSubsequence ==
    /\ IsSubseq(file_buf, buf0)
    /\ IsSubseq(out, buf0)
    /\ err => IsSubseq(err_buf, buf0)

\* A completed run in which a class removal and a literal removal both
\* deleted something and two different bytes survived.
C6_Witness ==
    /\ Completed
    /\ Len(look_src) < Len(buf0)
    /\ Len(out) < Len(look_src)
    /\ Cardinality(CharsOf(out)) >= 2

(***************************************************************************)
(* C7.  As claimed: tolower adds '0' - 16 to an uppercase byte, toupper    *)
(* subtracts it from a lowercase byte, other bytes are returned            *)
(* unchanged, and the shift differs from 'a' - 'A', so tolower('A') is     *)
(* not 'a' and toupper('a') is not 'A'.                                    *)
(***************************************************************************)
C7_Original ==
    /\ conv = "tolower" =>
           /\ res = IF isupper(ch) THEN ch + (48 - 16) ELSE ch
           /\ isupper(ch) => res # ch + (97 - 65)
           /\ ch = 65 => res # 97
    /\ conv = "toupper" =>
           /\ res = IF islower(ch) THEN ch - (48 - 16) ELSE ch
           /\ islower(ch) => res # ch - (97 - 65)
           /\ ch = 97 => res # 65

(***************************************************************************)
(* C7, amended.  tolower adds '0' - 16 to an uppercase byte, toupper       *)
(* subtracts it from a lowercase byte, other bytes are returned            *)
(* unchanged, and the shift is equal to the ASCII case-fold offset         *)
(* 'a' - 'A' = 32, so tolower('A') is 'a' and toupper('a') is 'A'.         *)
(***************************************************************************)
C7_ShiftIsCaseFold ==
    /\ conv = "tolower" =>
           /\ res = IF isupper(ch) THEN ch + (48 - 16) ELSE ch
           /\ isupper(ch) => res = ch + (97 - 65)
           /\ ch = 65 => res = 97
    /\ conv = "toupper" =>
           /\ res = IF islower(ch) THEN ch - (48 - 16) ELSE ch
           /\ islower(ch) => res = ch - (97 - 65)
           /\ ch = 97 => res = 65

\* tolower has been called on 'Z' and returned 'z'.
C7_Witness == conv = "tolower" /\ ch = 90 /\ res = 122

LeftmostDeleted(c, before, after) ==
    \E i \in 1..Len(before) :
        /\ before[i] = c
        /\ \A j \in 1..(i - 1) : before[j] # c
        /\ Len(after) = Len(before) - 1
        /\ \A j \in 1..(i - 1) : after[j] = before[j]
        /\ \A j \in i..Len(after) : after[j] = before[j + 1]

(***************************************************************************)
(* C8.  Every deletion of look_for removes the leftmost occurrence of the  *)
(* current residue character and leaves every other byte in place; the     *)
(* residue is walked left to right, never backwards; "aabbbcc" with        *)
(* residue "b" and N = 2 gives "aabcc", and "mississippi" with residue     *)
(* "si" and no limit gives "mpp".                                          *)
(***************************************************************************)
C8_LeftmostFirst ==
    /\ [][(pc = "for" /\ file_buf' # file_buf) =>
              /\ e_pos' = e_pos
              /\ e_pos <= Len(arg_v1)
              /\ LeftmostDeleted(arg_v1[e_pos], file_buf, file_buf')]_vars
    /\ [][pc = "for" => e_pos' >= e_pos]_vars
    /\ [](Completed /\ buf0 = Aabbbcc /\ pattern0 = <<98>> /\ look_lim = I64(2)
            => out = <<97, 97, 98, 99, 99>>)
    /\ [](Completed /\ buf0 = Mississippi /\ pattern0 = <<115, 105>> /\ look_lim = INT64_MAX
            => out = <<109, 112, 112>>)

\* A completed run with N = 1 that deleted an 'a' and kept a later 'a'.
C8_Witness ==
    /\ Completed
    /\ look_lim = I64(1)
    /\ 97 \in CharsOf(arg_v1)
    /\ Count(97, look_src) >= 2
    /\ Len(out) >= 2
    /\ out[1] # 97
    /\ out[Len(out)] = 97
    /\ look_src[1] = 97

Reordered(seq) ==
    {[i \in 1..Len(seq) |-> seq[f[i]]] : f \in Permutations(1..Len(seq))}

(***************************************************************************)
(* C9.  On return from match_args the buffer is what any other order of    *)
(* the selected removals gives, and what a single pass deleting every      *)
(* byte accepted by at least one selected predicate gives; a removal       *)
(* applied twice gives what it gives applied once.                         *)
(***************************************************************************)
C9_ClassRemovalOrderIndependent ==
    pc = "strip" =>
        /\ \A order \in Reordered(PresentSeq(pattern0)) :
               MatchFrom(order, pattern0, buf0, 1) = file_buf
        /\ file_buf = SelectSeq(buf0, LAMBDA c : ~\E r \in Present(pattern0) : Holds(r.pred, c))
        /\ \A r \in Present(pattern0) :
               /\ ignore_and_append(file_buf, r.pred) = file_buf
               /\ ignore_and_append(ignore_and_append(buf0, r.pred), r.pred)
                      = ignore_and_append(buf0, r.pred)

\* match_args has returned for a pattern with two class tokens, each of
\* which had a byte of its own to remove, and a byte survived.
C9_Witness ==
    /\ pc = "strip"
    /\ contains_this(pattern0, TokenOf("digit"))
    /\ contains_this(pattern0, TokenOf("htab"))
    /\ \E j \in 1..Len(buf0) : isdigit(buf0[j])
    /\ \E j \in 1..Len(buf0) : ishtab(buf0[j])
    /\ Len(file_buf) = 1

====
